---------------------------- MODULE Spec2Model ----------------------------
(***************************************************************************)
(* Model of the aiclientproxy/models tooling: the sync script              *)
(* (scripts/sync-models-dev.ts, with and without --slim) and the validate  *)
(* script (scripts/validate.ts).                                           *)
(*                                                                         *)
(* JavaScript strings are TLA+ strings.  An optional value (a field that   *)
(* may be undefined) is a sequence of length 0 (undefined) or 1 (the       *)
(* value), so that "" and undefined stay distinct.                         *)
(***************************************************************************)
EXTENDS Integers, Sequences, FiniteSets, TLC

VARIABLES
    pc,            \* position of the running script / of the function call
    arg,           \* argument record of the function under call
    ret,           \* <<>> before the call returns, <<value>> after
    providersDir,  \* the files of PROVIDERS_DIR: file name -> content
    aliasesDir,    \* the files of ALIASES_DIR: file name -> content
    indexFile,     \* index.json: <<>> when there is no such file, else <<content>>
    sync,          \* locals of sync's main()
    val,           \* locals of validate's main()
    exitCode,      \* <<>> while running, <<status>> once the process has ended
    hist           \* history of the runs (what was fetched, what was on disk first)

vars == <<pc, arg, ret, providersDir, aliasesDir, indexFile, sync, val, exitCode, hist>>

storeVars == <<providersDir, aliasesDir, indexFile, sync, val, exitCode, hist>>

callVars == <<arg, ret>>

-----------------------------------------------------------------------------
(* Optional values *)

None == <<>>

Some(v) == <<v>>

IsSome(o) == Len(o) = 1

\* JavaScript truthiness of an optional string: undefined and "" are falsy.
TruthyStr(o) == Len(o) = 1 /\ Len(o[1]) > 0

\* JavaScript truthiness of an optional number: undefined and 0 are falsy.
TruthyNum(o) == Len(o) = 1 /\ o[1] # 0

\* a || b on optional strings
OrStr(a, b) == IF TruthyStr(a) THEN a ELSE b

-----------------------------------------------------------------------------
(* String.prototype.toLowerCase and String.prototype.includes *)

UpperChars == "ABCDEFGHIJKLMNOPQRSTUVWXYZ"

LowerChars == "abcdefghijklmnopqrstuvwxyz"

lowerChar(c) ==
    IF \E k \in 1..Len(UpperChars) : SubSeq(UpperChars, k, k) = c
    THEN LET k == CHOOSE k \in 1..Len(UpperChars) : SubSeq(UpperChars, k, k) = c
         IN  SubSeq(LowerChars, k, k)
    ELSE c

RECURSIVE toLowerCase(_)
toLowerCase(s) ==
    IF Len(s) = 0 THEN ""
    ELSE lowerChar(SubSeq(s, 1, 1)) \o toLowerCase(SubSeq(s, 2, Len(s)))

includes(s, p) ==
    \E i \in 1..(Len(s) - Len(p) + 1) : SubSeq(s, i, i + Len(p) - 1) = p

-----------------------------------------------------------------------------
(* Idle values of the parts of the state a specification does not use *)

NoFiles == <<>>

NoSync == <<>>

NoVal == <<>>

NoHist == <<>>

StoreIdle ==
    /\ providersDir = NoFiles
    /\ aliasesDir = NoFiles
    /\ indexFile = None
    /\ sync = NoSync
    /\ val = NoVal
    /\ exitCode = None
    /\ hist = NoHist

CallIdle ==
    /\ arg = None
    /\ ret = None

-----------------------------------------------------------------------------
(* inferTier *)

maxPatterns ==
    << "opus", "gpt-4o", "gpt-4-turbo", "gemini-2.5-pro", "gemini-ultra",
       "claude-3-opus", "qwen-max", "glm-4-plus", "deepseek-v3", "o1-pro",
       "o1-preview", "o3" >>

miniPatterns ==
    << "mini", "nano", "lite", "flash", "haiku", "gpt-4o-mini",
       "gemini-flash", "qwen-turbo", "glm-4-flash" >>

\* for (const pattern of patterns) if (id.includes(pattern) || name.includes(pattern))
matchesAny(patterns, id, name) ==
    \E i \in 1..Len(patterns) :
        includes(id, patterns[i]) \/ includes(name, patterns[i])

\* a slip that checks the mini list before the max list
inferTierMiniFirst(modelId, modelName) ==
    LET id   == toLowerCase(modelId)
        name == toLowerCase(modelName)
    IN  IF matchesAny(miniPatterns, id, name) THEN "mini"
        ELSE IF matchesAny(maxPatterns, id, name) THEN "max"
        ELSE "pro"

inferTier(modelId, modelName) ==
    LET id   == toLowerCase(modelId)
        name == toLowerCase(modelName)
    IN  IF matchesAny(maxPatterns, id, name) THEN "max"
        ELSE IF matchesAny(miniPatterns, id, name) THEN "mini"
        ELSE "pro"

-----------------------------------------------------------------------------
(* convertModel: a models.dev record (ModelsDevModel) to a Model *)

\* model.modalities?.input?.some((m) => m === "image" || m === "video")
\*   || model.attachment || false
supportsVision(model) ==
    \/ /\ IsSome(model.modalities)
       /\ IsSome(model.modalities[1].input)
       /\ \E k \in 1..Len(model.modalities[1].input[1]) :
              model.modalities[1].input[1][k] \in {"image", "video"}
    \/ model.attachment = Some(TRUE)

\* model.cost ? {...cost, currency: "USD"} : undefined
convertPricing(model) ==
    IF IsSome(model.cost)
    THEN Some([input       |-> model.cost[1].input,
               output      |-> model.cost[1].output,
               cache_read  |-> model.cost[1].cache_read,
               cache_write |-> model.cost[1].cache_write,
               currency    |-> "USD"])
    ELSE None

\* model.limit?.context || model.limit?.output ? {context, max_output} : undefined
convertLimits(model) ==
    IF /\ IsSome(model.limit)
       /\ \/ TruthyNum(model.limit[1].context)
          \/ TruthyNum(model.limit[1].output)
    THEN Some([context    |-> model.limit[1].context,
               max_output |-> model.limit[1].output])
    ELSE None

convertModel(model) ==
    [ id             |-> model.id,
      name           |-> model.name,
      family         |-> model.family,
      tier           |-> inferTier(model.id, model.name),
      capabilities   |-> [ vision           |-> supportsVision(model),
                           tools            |-> (model.tool_call = Some(TRUE)),
                           streaming        |-> TRUE,
                           json_mode        |-> TRUE,
                           function_calling |-> (model.tool_call = Some(TRUE)),
                           reasoning        |-> (model.reasoning = Some(TRUE)) ],
      pricing        |-> convertPricing(model),
      limits         |-> convertLimits(model),
      status         |-> IF TruthyStr(model.status) THEN model.status[1] ELSE "active",
      release_date   |-> model.release_date,
      is_latest      |-> includes(model.id, "latest"),
      description    |-> None,
      description_zh |-> None ]

-----------------------------------------------------------------------------
(* mergeModels *)

\* new Map(existingModels.map((m) => [m.id, m])).get(id): the last entry with
\* that id, or undefined
existingMapGet(existingModels, id) ==
    LET hits == {j \in 1..Len(existingModels) : existingModels[j].id = id}
    IN  IF hits = {} THEN None
        ELSE Some(existingModels[CHOOSE j \in hits : \A k \in hits : k <= j])

\* a slip that lets the new model's description_zh win when it has one
mergeOneNewZhWins(newModel, existing) ==
    [newModel EXCEPT
        !.description    = OrStr(existing.description, newModel.description),
        !.description_zh = OrStr(newModel.description_zh, existing.description_zh)]

\* {...newModel, description: existing.description || newModel.description,
\*  description_zh: existing.description_zh}
mergeOne(newModel, existing) ==
    [newModel EXCEPT
        !.description    = OrStr(existing.description, newModel.description),
        !.description_zh = existing.description_zh]

\* a slip that appends the models found only in the existing document
mergeModelsKeepStale(newModels, existingModels) ==
    [i \in 1..Len(newModels) |->
        LET existing == existingMapGet(existingModels, newModels[i].id)
        IN  IF IsSome(existing) THEN mergeOne(newModels[i], existing[1])
            ELSE newModels[i]]
    \o SelectSeq(existingModels,
                 LAMBDA m : \A i \in 1..Len(newModels) : newModels[i].id # m.id)

mergeModels(newModels, existingModels) ==
    [i \in 1..Len(newModels) |->
        LET existing == existingMapGet(existingModels, newModels[i].id)
        IN  IF IsSome(existing) THEN mergeOne(newModels[i], existing[1])
            ELSE newModels[i]]

-----------------------------------------------------------------------------
(* String.prototype.localeCompare, on the strings the model uses *)

\* the strings that are compared, in collation order
CollationOrder ==
    << "", "2024-05-13", "2025-08-07", "A", "A 0", "A 1", "A 2", "A Latest", "A mini",
       "B", "B 1", "E 1", "N mini", "N pro" >>

collationRank(s) == CHOOSE k \in 1..Len(CollationOrder) : CollationOrder[k] = s

\* a.localeCompare(b): negative, zero or positive
localeCompare(a, b) == collationRank(a) - collationRank(b)

-----------------------------------------------------------------------------
(* simplifyModels (--slim) *)

\* model.family is truthy
hasFamily(model) == TruthyStr(model.family)

\* the keys of familyGroups in insertion order: each family at its first model
familyOrder(models) ==
    LET firsts == {i \in 1..Len(models) :
                      /\ hasFamily(models[i])
                      /\ \A j \in 1..(i - 1) : models[j].family # models[i].family}
        keep[i \in 0..Len(models)] ==
            IF i = 0 THEN <<>>
            ELSE IF i \in firsts THEN Append(keep[i - 1], models[i].family[1])
            ELSE keep[i - 1]
    IN  keep[Len(models)]

\* familyGroups.get(family): the models of the family, in input order
familyGroup(models, family) == SelectSeq(models, LAMBDA m : m.family = Some(family))

tierOrder(tier) == CASE tier = "max" -> 0 [] tier = "pro" -> 1 [] tier = "mini" -> 2

\* a slip in the comparator's first rule: is_latest sorts last
familyCompareLatestLast(a, b) ==
    IF a.is_latest /\ ~b.is_latest THEN 1
    ELSE IF ~a.is_latest /\ b.is_latest THEN -1
    ELSE IF /\ TruthyStr(a.release_date) /\ TruthyStr(b.release_date)
            /\ localeCompare(b.release_date[1], a.release_date[1]) # 0
         THEN localeCompare(b.release_date[1], a.release_date[1])
    ELSE IF TruthyStr(a.release_date) /\ ~TruthyStr(b.release_date) THEN -1
    ELSE IF ~TruthyStr(a.release_date) /\ TruthyStr(b.release_date) THEN 1
    ELSE tierOrder(a.tier) - tierOrder(b.tier)

\* the comparator of familyModels.sort
familyCompare(a, b) ==
    IF a.is_latest /\ ~b.is_latest THEN -1
    ELSE IF ~a.is_latest /\ b.is_latest THEN 1
    ELSE IF /\ TruthyStr(a.release_date) /\ TruthyStr(b.release_date)
            /\ localeCompare(b.release_date[1], a.release_date[1]) # 0
         THEN localeCompare(b.release_date[1], a.release_date[1])
    ELSE IF TruthyStr(a.release_date) /\ ~TruthyStr(b.release_date) THEN -1
    ELSE IF ~TruthyStr(a.release_date) /\ TruthyStr(b.release_date) THEN 1
    ELSE tierOrder(a.tier) - tierOrder(b.tier)

\* x put into the sorted sequence q after every entry that does not sort after it
familyInsert(q, x) ==
    LET before == {k \in 0..Len(q) : \A j \in 1..k : familyCompare(q[j], x) <= 0}
        at     == CHOOSE k \in before : \A j \in before : j <= k
    IN  SubSeq(q, 1, at) \o <<x>> \o SubSeq(q, at + 1, Len(q))

\* familyModels.sort(comparator): Array.prototype.sort is stable
RECURSIVE familySort(_)
familySort(familyModels) ==
    IF Len(familyModels) = 0 THEN <<>>
    ELSE familyInsert(familySort(SubSeq(familyModels, 1, Len(familyModels) - 1)),
                      familyModels[Len(familyModels)])

\* model.is_latest || id.toLowerCase().includes("latest") || name.toLowerCase().includes("latest")
isLatestModel(model) ==
    \/ model.is_latest
    \/ includes(toLowerCase(model.id), "latest")
    \/ includes(toLowerCase(model.name), "latest")

\* a slip in the keep loop: keeping a non-latest model does not set hasDated
RECURSIVE keepLoopNoDatedFlag(_, _, _, _, _)
keepLoopNoDatedFlag(familyModels, k, kept, hasLatest, hasDated) ==
    IF k > Len(familyModels) \/ Len(kept) >= 2 THEN kept
    ELSE LET model == familyModels[k]
         IN  IF isLatestModel(model) /\ ~hasLatest
             THEN keepLoopNoDatedFlag(familyModels, k + 1, Append(kept, model), TRUE, hasDated)
             ELSE IF ~isLatestModel(model) /\ ~hasDated
             THEN keepLoopNoDatedFlag(familyModels, k + 1, Append(kept, model), hasLatest, hasDated)
             ELSE IF ~hasLatest /\ ~hasDated
             THEN keepLoopNoDatedFlag(familyModels, k + 1, Append(kept, model), hasLatest, TRUE)
             ELSE keepLoopNoDatedFlag(familyModels, k + 1, kept, hasLatest, hasDated)

\* the loop over the sorted family from position k, with kept, hasLatest, hasDated
RECURSIVE keepLoop(_, _, _, _, _)
keepLoop(familyModels, k, kept, hasLatest, hasDated) ==
    IF k > Len(familyModels) \/ Len(kept) >= 2 THEN kept
    ELSE LET model == familyModels[k]
         IN  IF isLatestModel(model) /\ ~hasLatest
             THEN keepLoop(familyModels, k + 1, Append(kept, model), TRUE, hasDated)
             ELSE IF ~isLatestModel(model) /\ ~hasDated
             THEN keepLoop(familyModels, k + 1, Append(kept, model), hasLatest, TRUE)
             ELSE IF ~hasLatest /\ ~hasDated
             THEN keepLoop(familyModels, k + 1, Append(kept, model), hasLatest, TRUE)
             ELSE keepLoop(familyModels, k + 1, kept, hasLatest, hasDated)

\* the models kept of one family
keptOfFamily(models, family) ==
    keepLoop(familySort(familyGroup(models, family)), 1, <<>>, FALSE, FALSE)

\* the models without family that are kept: latest or tier max / pro
keptNoFamily(models) ==
    SelectSeq(models,
              LAMBDA m : ~hasFamily(m) /\ (isLatestModel(m) \/ m.tier \in {"max", "pro"}))

simplifyModels(models) ==
    LET families == familyOrder(models)
        result[k \in 0..Len(families)] ==
            IF k = 0 THEN <<>>
            ELSE result[k - 1] \o keptOfFamily(models, families[k])
    IN  result[Len(families)] \o keptNoFamily(models)

-----------------------------------------------------------------------------
(* validate.ts: the checks of one file                                      *)
(*                                                                          *)
(* A file's content is [text, data]: text "garbage" (JSON.parse throws),    *)
(* "null" (it parses to null) or "object" (it parses to the object data[1]).*)

Garbage == [text |-> "garbage", data |-> None]

JsonNull == [text |-> "null", data |-> None]

JsonObject(doc) == [text |-> "object", data |-> Some(doc)]

\* the checks of models[i..] (i counts from 0): the errors pushed, and whether
\* reading a field of a null entry threw
RECURSIVE providerModelChecks(_, _)
providerModelChecks(models, i) ==
    IF i >= Len(models) THEN [errors |-> <<>>, threw |-> FALSE]
    ELSE LET model == models[i + 1]
         IN  IF model.null THEN [errors |-> <<>>, threw |-> TRUE]
             ELSE LET at   == "models[" \o ToString(i) \o "]: "
                      own  == (IF ~TruthyStr(model.id) THEN <<at \o "missing id">> ELSE <<>>)
                              \o (IF ~TruthyStr(model.name) THEN <<at \o "missing name">> ELSE <<>>)
                              \o (IF TruthyStr(model.tier) /\ model.tier[1] \notin {"mini", "pro", "max"}
                                  THEN <<at \o "invalid tier \"" \o model.tier[1] \o "\"">>
                                  ELSE <<>>)
                      rest == providerModelChecks(models, i + 1)
                  IN  [errors |-> own \o rest.errors, threw |-> rest.threw]

\* the body of validateProviders' loop for one file
validateProviderFile(file, content) ==
    IF content.text = "garbage"
    THEN [file |-> "providers/" \o file, valid |-> FALSE,
          errors |-> <<"Parse error: SyntaxError">>]
    ELSE IF content.text = "null"
    THEN [file |-> "providers/" \o file, valid |-> FALSE,
          errors |-> <<"Parse error: TypeError">>]
    ELSE LET data   == content.data[1]
             head   == (IF ~(IsSome(data.provider) /\ TruthyStr(data.provider[1].id))
                        THEN <<"Missing provider.id">> ELSE <<>>)
                       \o (IF ~(IsSome(data.provider) /\ TruthyStr(data.provider[1].name))
                           THEN <<"Missing provider.name">> ELSE <<>>)
             checks == IF data.models.array THEN providerModelChecks(data.models.items, 0)
                       ELSE [errors |-> <<"models must be an array">>, threw |-> FALSE]
             tail   == IF ~TruthyStr(data.updated_at) THEN <<"Missing updated_at">> ELSE <<>>
         IN  IF checks.threw
             THEN [file |-> "providers/" \o file, valid |-> FALSE,
                   errors |-> head \o checks.errors \o <<"Parse error: TypeError">>]
             ELSE [file |-> "providers/" \o file,
                   valid |-> (head \o checks.errors \o tail = <<>>),
                   errors |-> head \o checks.errors \o tail]

\* the body of validateAliases' loop over Object.entries(data.aliases)
RECURSIVE aliasEntryChecks(_, _)
aliasEntryChecks(entries, k) ==
    IF k > Len(entries) THEN <<>>
    ELSE (IF ~entries[k].object
          THEN <<"aliases." \o entries[k].alias \o ": must be an object">>
          ELSE IF ~TruthyStr(entries[k].actual)
          THEN <<"aliases." \o entries[k].alias \o ": missing actual">>
          ELSE <<>>)
         \o aliasEntryChecks(entries, k + 1)

\* the body of validateAliases' loop for one file
validateAliasFile(file, content) ==
    IF content.text = "garbage"
    THEN [file |-> "aliases/" \o file, valid |-> FALSE,
          errors |-> <<"Parse error: SyntaxError">>]
    ELSE IF content.text = "null"
    THEN [file |-> "aliases/" \o file, valid |-> FALSE,
          errors |-> <<"Parse error: TypeError">>]
    ELSE LET data   == content.data[1]
             errors == (IF ~TruthyStr(data.provider) THEN <<"Missing provider">> ELSE <<>>)
                       \o (IF ~data.aliases.object THEN <<"aliases must be an object">>
                           ELSE aliasEntryChecks(data.aliases.entries, 1))
         IN  [file |-> "aliases/" \o file, valid |-> (errors = <<>>), errors |-> errors]

\* validateIndex: index is <<>> when index.json cannot be read
validateIndex(index) ==
    IF ~IsSome(index)
    THEN [file |-> "index.json", valid |-> FALSE, errors |-> <<"Parse error: ENOENT">>]
    ELSE IF index[1].text = "garbage"
    THEN [file |-> "index.json", valid |-> FALSE, errors |-> <<"Parse error: SyntaxError">>]
    ELSE IF index[1].text = "null"
    THEN [file |-> "index.json", valid |-> FALSE, errors |-> <<"Parse error: TypeError">>]
    ELSE LET data   == index[1].data[1]
             errors == (IF ~TruthyStr(data.version) THEN <<"Missing version">> ELSE <<>>)
                       \o (IF ~TruthyStr(data.updated_at) THEN <<"Missing updated_at">> ELSE <<>>)
                       \o (IF ~data.providers.array THEN <<"providers must be an array">>
                           ELSE <<>>)
         IN  [file |-> "index.json", valid |-> (errors = <<>>), errors |-> errors]

\* f.endsWith(".json")
endsWithJson(f) == Len(f) >= 5 /\ SubSeq(f, Len(f) - 4, Len(f)) = ".json"

\* files.filter((f) => f.endsWith(".json")) of a directory (a directory that
\* does not exist gives the same empty list of results as one without files)
jsonFiles(dir) == {f \in DOMAIN dir : endsWithJson(f)}

\* the orders in which readdir may list the files of a set
listings(files) ==
    {q \in [1..Cardinality(files) -> files] : \A i, j \in 1..Cardinality(files) :
                                                  q[i] = q[j] => i = j}

\* a slip that ends the loop over the files at the first invalid one
validateProvidersStopAtFailure(dir, listing) ==
    LET all   == [k \in 1..Len(listing) |-> validateProviderFile(listing[k], dir[listing[k]])]
        bad   == {k \in 1..Len(all) : ~all[k].valid}
        until == IF bad = {} THEN Len(all) ELSE CHOOSE k \in bad : \A j \in bad : k <= j
    IN  SubSeq(all, 1, until)

\* validateProviders: one result per listed file
validateProviders(dir, listing) ==
    [k \in 1..Len(listing) |-> validateProviderFile(listing[k], dir[listing[k]])]

\* validateAliases: one result per listed file
validateAliases(dir, listing) ==
    [k \in 1..Len(listing) |-> validateAliasFile(listing[k], dir[listing[k]])]

\* main's loop over allResults: the lines printed and hasErrors
reportOf(allResults) ==
    [ printed   |-> [k \in 1..Len(allResults) |->
                        [file |-> allResults[k].file, ok |-> allResults[k].valid]],
      hasErrors |-> \E k \in 1..Len(allResults) : ~allResults[k].valid ]

(* validate.ts main(), one action per awaited call *)

ValidateProviders ==
    /\ pc = "validateProviders"
    /\ \E listing \in listings(jsonFiles(providersDir)) :
           val' = [val EXCEPT !.providerResults = validateProviders(providersDir, listing)]
    /\ pc' = "validateAliases"
    /\ UNCHANGED <<callVars, providersDir, aliasesDir, indexFile, sync, exitCode, hist>>

ValidateAliases ==
    /\ pc = "validateAliases"
    /\ \E listing \in listings(jsonFiles(aliasesDir)) :
           val' = [val EXCEPT !.aliasResults = validateAliases(aliasesDir, listing)]
    /\ pc' = "validateIndex"
    /\ UNCHANGED <<callVars, providersDir, aliasesDir, indexFile, sync, exitCode, hist>>

ValidateIndex ==
    /\ pc = "validateIndex"
    /\ val' = [val EXCEPT !.indexResult = Some(validateIndex(indexFile))]
    /\ pc' = "report"
    /\ UNCHANGED <<callVars, providersDir, aliasesDir, indexFile, sync, exitCode, hist>>

\* the report loop, the summary and process.exit(1) / the normal end
ValidateReport ==
    /\ pc = "report"
    /\ LET allResults == val.providerResults \o val.aliasResults \o val.indexResult
           report     == reportOf(allResults)
       IN  /\ val' = [val EXCEPT !.allResults = allResults, !.printed = report.printed]
           /\ exitCode' = Some(IF report.hasErrors THEN 1 ELSE 0)
    /\ pc' = "exited"
    /\ UNCHANGED <<callVars, providersDir, aliasesDir, indexFile, sync, hist>>

-----------------------------------------------------------------------------
(* sync-models-dev.ts main()                                                *)
(*                                                                          *)
(* The upstream snapshot (data) is the sequence of Object.entries: records  *)
(* [key, name, models], models being the Object.values of provider.models.  *)

\* the comparator of mergedModels.sort
providerCompare(a, b) ==
    IF TruthyStr(a.release_date) /\ TruthyStr(b.release_date)
    THEN localeCompare(b.release_date[1], a.release_date[1])
    ELSE IF TruthyStr(a.release_date) THEN -1
    ELSE IF TruthyStr(b.release_date) THEN 1
    ELSE localeCompare(a.name, b.name)

\* x put into the sorted sequence q after every entry that does not sort after it
providerInsert(q, x) ==
    LET before == {k \in 0..Len(q) : \A j \in 1..k : providerCompare(q[j], x) <= 0}
        at     == CHOOSE k \in before : \A j \in before : j <= k
    IN  SubSeq(q, 1, at) \o <<x>> \o SubSeq(q, at + 1, Len(q))

\* mergedModels.sort(comparator): Array.prototype.sort is stable
RECURSIVE providerSort(_)
providerSort(mergedModels) ==
    IF Len(mergedModels) = 0 THEN <<>>
    ELSE providerInsert(providerSort(SubSeq(mergedModels, 1, Len(mergedModels) - 1)),
                        mergedModels[Len(mergedModels)])

\* loadExistingProvider: null when the file is missing or does not parse (and
\* a file holding null parses to null)
loadExistingProvider(dir, providerId) ==
    IF (providerId \o ".json") \notin DOMAIN dir THEN None
    ELSE IF dir[providerId \o ".json"].text # "object" THEN None
    ELSE dir[providerId \o ".json"].data

\* loadExistingIndex
loadExistingIndex(file) ==
    IF ~IsSome(file) THEN None
    ELSE IF file[1].text # "object" THEN None
    ELSE file[1].data

\* a slip in the write: the directory is left with the written file only
writeFileAlone(dir, file, content) == [f \in {file} |-> content]

\* fs.writeFile(path, content)
writeFile(dir, file, content) ==
    [f \in DOMAIN dir \cup {file} |-> IF f = file THEN content ELSE dir[f]]

\* new Date().toISOString() in the n-th run
timestamp(n) == "run " \o ToString(n)

\* the order of the provider ids under Array.prototype.sort (code units)
codeUnitOrder == <<"pa", "pb">>

\* a slip that leaves out the sort: the ids stay in the order they were pushed
sortIdsAsPushed(providerIds) == providerIds

\* providerIds.sort()
sortIds(providerIds) ==
    SelectSeq(codeUnitOrder, LAMBDA id : \E k \in 1..Len(providerIds) : providerIds[k] = id)

\* the models of one loop iteration before the merge: converted, and simplified
\* in slim mode
convertedModels(entry, slim) ==
    LET models == [k \in 1..Len(entry.models) |-> convertModel(entry.models[k])]
    IN  IF slim THEN simplifyModels(models) ELSE models

\* mergedModels of one loop iteration, sorted
mergedModelsOf(entry, slim, existing) ==
    providerSort(IF IsSome(existing)
                 THEN mergeModels(convertedModels(entry, slim), existing[1].models.items)
                 ELSE convertedModels(entry, slim))

\* a slip in providerData: the provider's name is left empty
providerDataUnnamed(entry, mergedModels, now) ==
    [ schema     |-> "../schema/model.schema.json",
      provider   |-> [id |-> entry.key, name |-> ""],
      models     |-> [array |-> TRUE, items |-> mergedModels],
      updated_at |-> now,
      source     |-> "models.dev" ]

\* providerData of one loop iteration
providerDataOf(entry, mergedModels, now) ==
    [ schema     |-> "../schema/model.schema.json",
      provider   |-> [id |-> entry.key, name |-> entry.name],
      models     |-> [array |-> TRUE, items |-> mergedModels],
      updated_at |-> now,
      source     |-> "models.dev" ]

\* indexData
indexDataOf(providerIds, totalModels, existingIndex, now) ==
    [ version      |-> "1.0.0",
      updated_at   |-> now,
      providers    |-> sortIds(providerIds),
      total_models |-> totalModels,
      sources      |-> [ models_dev |-> "https://models.dev/api.json",
                         manual     |-> IF IsSome(existingIndex)
                                        THEN existingIndex[1].sources.manual
                                        ELSE <<>> ] ]

\* the pairs <<provider key, model id>> of a snapshot
fetchedIds(data) ==
    UNION {{<<data[i].key, data[i].models[k].id>> : k \in 1..Len(data[i].models)} :
              i \in 1..Len(data)}

MaxRuns == 1

\* the process starts: SLIM_MODE is read from the command line
SyncStart ==
    /\ pc \in {"start", "exited"}
    /\ hist.runs < MaxRuns
    /\ \E slim \in BOOLEAN :
           /\ sync' = [ SLIM_MODE |-> slim, data |-> <<>>, i |-> 1, providerIds |-> <<>>,
                        totalModels |-> 0, error |-> None ]
           /\ hist' = [hist EXCEPT !.runs = @ + 1, !.atThrow = None,
                                   !.slim = @ \/ slim,
                                   !.atStart = [providers |-> providersDir,
                                                index |-> indexFile]]
    /\ exitCode' = None
    /\ val' = NoVal
    /\ pc' = "fetch"
    /\ UNCHANGED <<callVars, providersDir, aliasesDir, indexFile>>

\* fetch rejects (network error), or the response is not ok: main throws
SyncFetchFails ==
    /\ pc = "fetch"
    /\ \E e \in {"TypeError: fetch failed", "Error: Failed to fetch: 500"} :
           sync' = [sync EXCEPT !.error = Some(e)]
    /\ hist' = [hist EXCEPT !.ok = FALSE,
                            !.atThrow = Some([providers |-> providersDir, index |-> indexFile])]
    /\ pc' = "thrown"
    /\ UNCHANGED <<callVars, providersDir, aliasesDir, indexFile, val, exitCode>>

\* the loop over Object.entries(data) is done, or has another entry
loopEntry == sync.data[sync.i]

\* one iteration: a provider without models is skipped
SyncSkipProvider ==
    /\ pc = "loop"
    /\ sync.i <= Len(sync.data)
    /\ Len(loopEntry.models) = 0
    /\ sync' = [sync EXCEPT !.i = @ + 1]
    /\ UNCHANGED <<pc, callVars, providersDir, aliasesDir, indexFile, val, exitCode, hist>>

\* one iteration: convert, simplify, merge, sort and write providers/<id>.json
SyncWriteProvider ==
    /\ pc = "loop"
    /\ sync.i <= Len(sync.data)
    /\ Len(loopEntry.models) > 0
    /\ LET existing     == loadExistingProvider(providersDir, loopEntry.key)
       IN  /\ IsSome(existing) => existing[1].models.array
           /\ LET mergedModels == mergedModelsOf(loopEntry, sync.SLIM_MODE, existing)
              IN  /\ providersDir' =
                         writeFile(providersDir, loopEntry.key \o ".json",
                                   JsonObject(providerDataOf(loopEntry, mergedModels,
                                                             timestamp(hist.runs))))
                  /\ sync' = [sync EXCEPT !.i = @ + 1,
                                          !.providerIds = Append(@, loopEntry.key),
                                          !.totalModels = @ + Len(mergedModels)]
    /\ UNCHANGED <<pc, callVars, aliasesDir, indexFile, val, exitCode, hist>>

\* one iteration throws: the existing document has no models array
\* (existingModels.map is not a function), or fs.writeFile rejects
SyncProviderThrows ==
    /\ pc = "loop"
    /\ sync.i <= Len(sync.data)
    /\ Len(loopEntry.models) > 0
    /\ LET existing == loadExistingProvider(providersDir, loopEntry.key)
       IN  \/ /\ IsSome(existing)
              /\ ~existing[1].models.array
              /\ sync' = [sync EXCEPT !.error = Some("TypeError: existingModels.map is not a function")]
           \/ /\ IsSome(existing) => existing[1].models.array
              /\ sync' = [sync EXCEPT !.error = Some("Error: EACCES")]
    /\ hist' = [hist EXCEPT !.ok = FALSE,
                            !.atThrow = Some([providers |-> providersDir, index |-> indexFile])]
    /\ pc' = "thrown"
    /\ UNCHANGED <<callVars, providersDir, aliasesDir, indexFile, val, exitCode>>

\* after the loop: index.json is rebuilt and written
SyncWriteIndex ==
    /\ pc = "loop"
    /\ sync.i > Len(sync.data)
    /\ indexFile' = Some(JsonObject(indexDataOf(sync.providerIds, sync.totalModels,
                                                loadExistingIndex(indexFile),
                                                timestamp(hist.runs))))
    /\ pc' = "finished"
    /\ UNCHANGED <<callVars, providersDir, aliasesDir, sync, val, exitCode, hist>>

\* after the loop: fs.writeFile of index.json rejects
SyncIndexThrows ==
    /\ pc = "loop"
    /\ sync.i > Len(sync.data)
    /\ sync' = [sync EXCEPT !.error = Some("Error: EACCES")]
    /\ hist' = [hist EXCEPT !.ok = FALSE,
                            !.atThrow = Some([providers |-> providersDir, index |-> indexFile])]
    /\ pc' = "thrown"
    /\ UNCHANGED <<callVars, providersDir, aliasesDir, indexFile, val, exitCode>>

\* main().catch(console.error): a rejection is logged, and the process ends as
\* it does after a run without error, with status 0
SyncExit ==
    /\ pc \in {"finished", "thrown"}
    /\ exitCode' = Some(0)
    /\ pc' = "exited"
    /\ UNCHANGED <<callVars, providersDir, aliasesDir, indexFile, sync, val, hist>>

-----------------------------------------------------------------------------
(* Specification SpecTier: inferTier applied to bounded id/name pairs *)

MaxIdTokens == 2

MaxNameTokens == 1

TierTokens == {"gpt-4o", "-mini", "o", "3", "Opus", "Flash", "x"}

RECURSIVE Concats(_, _)
Concats(tokens, n) ==
    IF n = 0 THEN {""}
    ELSE LET shorter == Concats(tokens, n - 1)
         IN  shorter \cup {s \o t : s \in shorter, t \in tokens}

InitTier ==
    /\ pc = "call"
    /\ arg \in [id : Concats(TierTokens, MaxIdTokens),
                name : Concats(TierTokens, MaxNameTokens)]
    /\ ret = None
    /\ StoreIdle

CallInferTier ==
    /\ pc = "call"
    /\ ret' = Some(inferTier(arg.id, arg.name))
    /\ pc' = "return"
    /\ UNCHANGED <<arg, storeVars>>

NextTier == CallInferTier

SpecTier == InitTier /\ [][NextTier]_vars

Tiers == {"mini", "pro", "max"}

HitsPattern(patterns, s) ==
    \E p \in {patterns[i] : i \in 1..Len(patterns)} : includes(toLowerCase(s), p)

\* C1: inferTier is total and max-first: the result is one of mini, pro, max;
\* it is max whenever the lower-cased id or name contains a max pattern (also
\* when a mini pattern is contained as well), mini exactly when no max pattern
\* and some mini pattern is contained, and pro exactly when neither list hits.
C1_TierTotalMaxFirst ==
    pc = "return" =>
        LET r       == ret[1]
            hitMax  == HitsPattern(maxPatterns, arg.id) \/ HitsPattern(maxPatterns, arg.name)
            hitMini == HitsPattern(miniPatterns, arg.id) \/ HitsPattern(miniPatterns, arg.name)
        IN  /\ r \in Tiers
            /\ (hitMax => r = "max")
            /\ (r = "mini" <=> (~hitMax /\ hitMini))
            /\ (r = "pro" <=> (~hitMax /\ ~hitMini))

\* C1 witness: the example id "gpt-4o-mini" (both lists hit) was classified max.
C1_Witness ==
    /\ pc = "return"
    /\ arg.id = "gpt-4o-mini"
    /\ HitsPattern(maxPatterns, arg.id)
    /\ HitsPattern(miniPatterns, arg.id)
    /\ ret = Some("max")

-----------------------------------------------------------------------------
(* Specification SpecConvert: convertModel applied to bounded upstream records *)

\* a bare upstream record: only the required id and name are supplied
BareUpstream(id, name) ==
    [ id |-> id, name |-> name, family |-> None, release_date |-> None,
      attachment |-> None, reasoning |-> None, tool_call |-> None,
      cost |-> None, limit |-> None, modalities |-> None, status |-> None ]

OptBool == {None, Some(FALSE), Some(TRUE)}

CostFigures == {None, Some(0), Some(3)}

LimitFigures == {None, Some(0), Some(4096)}

UpstreamCosts ==
    {None} \cup
    {Some([input |-> i, output |-> o, cache_read |-> None, cache_write |-> None]) :
        i \in CostFigures, o \in CostFigures}

UpstreamLimits ==
    {None} \cup
    {Some([context |-> c, output |-> o]) : c \in LimitFigures, o \in LimitFigures}

UpstreamModalities ==
    {None, Some([input |-> None]), Some([input |-> Some(<<"text">>)]),
     Some([input |-> Some(<<"text", "image">>)])}

ConvertInputs ==
    { [BareUpstream(id, "Model") EXCEPT
          !.cost = c, !.limit = l, !.attachment = a, !.modalities = m, !.status = s,
          !.tool_call = t] :
        id \in {"gpt-4o-mini", "x-latest"}, c \in UpstreamCosts, l \in UpstreamLimits,
        a \in OptBool, m \in UpstreamModalities,
        s \in {None, Some(""), Some("deprecated")}, t \in {None, Some(TRUE)} }

InitConvert ==
    /\ pc = "call"
    /\ arg \in ConvertInputs
    /\ ret = None
    /\ StoreIdle

CallConvertModel ==
    /\ pc = "call"
    /\ ret' = Some(convertModel(arg))
    /\ pc' = "return"
    /\ UNCHANGED <<arg, storeVars>>

NextConvert == CallConvertModel

SpecConvert == InitConvert /\ [][NextConvert]_vars

\* the upstream record supplies a limit.context or a limit.output figure
SuppliesLimitFigure(model) ==
    /\ IsSome(model.limit)
    /\ (IsSome(model.limit[1].context) \/ IsSome(model.limit[1].output))

\* C6: convertModel is presence-preserving: the output has a pricing field
\* (with currency "USD") iff the upstream record supplies a cost block, and a
\* limits field iff the upstream record supplies a limit.context or a
\* limit.output figure; a field that is not supplied is absent.
C6_PresencePreserving ==
    pc = "return" =>
        /\ IsSome(ret[1].pricing) <=> IsSome(arg.cost)
        /\ IsSome(ret[1].pricing) => ret[1].pricing[1].currency = "USD"
        /\ IsSome(ret[1].limits) <=> SuppliesLimitFigure(arg)

-----------------------------------------------------------------------------
(* Specification SpecMerge: mergeModels applied to bounded model lists *)

MaxNew == 2

MaxExisting == 2

MergeIds == {"m1", "m2"}

\* freshly converted models, also with curated fields of their own
MergeNewModels ==
    { [convertModel(BareUpstream(id, "New " \o id)) EXCEPT
          !.description = c[1], !.description_zh = c[2]] :
        id \in MergeIds,
        c \in {<<None, None>>, <<Some("new text"), None>>, <<None, Some("new zh")>>} }

\* models of a stored provider document: stale upstream fields, curated text
MergeExistingModels ==
    { [convertModel([BareUpstream(id, "Old " \o id) EXCEPT !.status = Some("beta")]) EXCEPT
          !.description = c[1], !.description_zh = c[2]] :
        id \in MergeIds,
        c \in {<<None, None>>, <<Some(""), Some("old zh")>>,
               <<Some("old text"), None>>, <<Some("old text"), Some("old zh 2")>>} }

RECURSIVE SeqsUpTo(_, _)
SeqsUpTo(S, n) ==
    IF n = 0 THEN {<<>>}
    ELSE LET shorter == SeqsUpTo(S, n - 1)
         IN  shorter \cup {Append(q, x) : q \in shorter, x \in S}

InitMerge ==
    /\ pc = "call"
    /\ arg \in [newModels      : SeqsUpTo(MergeNewModels, MaxNew),
                existingModels : SeqsUpTo(MergeExistingModels, MaxExisting)]
    /\ ret = None
    /\ StoreIdle

CallMergeModels ==
    /\ pc = "call"
    /\ ret' = Some(mergeModels(arg.newModels, arg.existingModels))
    /\ pc' = "return"
    /\ UNCHANGED <<arg, storeVars>>

NextMerge == CallMergeModels

SpecMerge == InitMerge /\ [][NextMerge]_vars

\* the positions of the existing models with this id
ExistingWith(id) == {j \in 1..Len(arg.existingModels) : arg.existingModels[j].id = id}

\* the existing model with this id (should the document repeat the id, the
\* last one: a later entry replaces an earlier one in the lookup)
TheExisting(id) ==
    arg.existingModels[CHOOSE j \in ExistingWith(id) : \A k \in ExistingWith(id) : k <= j]

\* the fields of a Model other than the two curated ones
OtherFields == {"id", "name", "family", "tier", "capabilities", "pricing", "limits",
                "status", "release_date", "is_latest"}

\* C2: mergeModels returns one entry per new model, in the order of newModels,
\* hence no entry for an id that occurs only in existingModels; and where the
\* new model's id occurs in existingModels the entry's description_zh is the
\* existing model's, also when the new model has none.
C2_MergeShape ==
    pc = "return" =>
        LET merged == ret[1]
        IN  /\ Len(merged) = Len(arg.newModels)
            /\ \A i \in 1..Len(merged) : merged[i].id = arg.newModels[i].id
            /\ \A j \in 1..Len(arg.existingModels) :
                   (\A i \in 1..Len(arg.newModels) :
                        arg.newModels[i].id # arg.existingModels[j].id)
                   => \A k \in 1..Len(merged) : merged[k].id # arg.existingModels[j].id
            /\ \A i \in 1..Len(merged) :
                   ExistingWith(arg.newModels[i].id) # {}
                   => merged[i].description_zh = TheExisting(arg.newModels[i].id).description_zh

\* C2 witness: the spec's scenario: existing m1 with a description_zh and an
\* existing-only m2; the new fetch has m1 without description_zh; the merge
\* kept m1's description_zh and has no m2.
C2_Witness ==
    /\ pc = "return"
    /\ Len(arg.existingModels) = 2
    /\ arg.existingModels[1].id = "m1"
    /\ arg.existingModels[1].description_zh = Some("old zh")
    /\ arg.existingModels[2].id = "m2"
    /\ Len(arg.newModels) = 1
    /\ arg.newModels[1].id = "m1"
    /\ arg.newModels[1].description_zh = None
    /\ Len(ret[1]) = 1
    /\ ret[1][1].description_zh = Some("old zh")

\* C10 as claimed: for a new model whose id matches an existing model, the
\* existing description is carried over only if the new model lacks one (a
\* description on the new model wins), description_zh is the existing one
\* unconditionally, and every other field is the new model's.
C10_NewDescriptionWins ==
    pc = "return" =>
        \A i \in 1..Len(arg.newModels) :
            ExistingWith(arg.newModels[i].id) # {} =>
                LET new == arg.newModels[i]
                    old == TheExisting(new.id)
                    m   == ret[1][i]
                IN  /\ m.description = IF IsSome(new.description) THEN new.description
                                       ELSE old.description
                    /\ m.description_zh = old.description_zh
                    /\ \A f \in OtherFields : m[f] = new[f]

\* C10 as amended: the existing description wins whenever it is non-empty; the
\* new model's description is used only when the existing model has none (or
\* an empty one); description_zh is the existing one unconditionally (also
\* when it is absent and the new model has one); every other field is the new
\* model's.
C10_ExistingDescriptionWins ==
    pc = "return" =>
        \A i \in 1..Len(arg.newModels) :
            ExistingWith(arg.newModels[i].id) # {} =>
                LET new == arg.newModels[i]
                    old == TheExisting(new.id)
                    m   == ret[1][i]
                IN  /\ m.description = IF IsSome(old.description) /\ old.description # Some("")
                                       THEN old.description
                                       ELSE new.description
                    /\ m.description_zh = old.description_zh
                    /\ \A f \in OtherFields : m[f] = new[f]

\* C10 witness: both models carry a description and the existing one was kept,
\* and an absent existing description_zh replaced the new model's.
C10_Witness ==
    /\ pc = "return"
    /\ \E i \in 1..Len(arg.newModels) :
          /\ ExistingWith(arg.newModels[i].id) # {}
          /\ arg.newModels[i].description = Some("new text")
          /\ TheExisting(arg.newModels[i].id).description = Some("old text")
          /\ ret[1][i].description = Some("old text")
    /\ \E i \in 1..Len(arg.newModels) :
          /\ ExistingWith(arg.newModels[i].id) # {}
          /\ arg.newModels[i].description_zh = Some("new zh")
          /\ TheExisting(arg.newModels[i].id).description_zh = None
          /\ ret[1][i].description_zh = None
          /\ ret[1][i].name # TheExisting(arg.newModels[i].id).name

-----------------------------------------------------------------------------
(* Specification SpecSimplify: simplifyModels applied to lists of converted models *)

MaxSimplify == 4

\* upstream records of two families (one of them with a deprecated model), of
\* no family and of an empty family
SimplifyCatalog ==
    { [BareUpstream("a-latest", "A") EXCEPT !.family = Some("fa")],
      [BareUpstream("a-Latest", "A Latest") EXCEPT
          !.family = Some("fa"), !.release_date = Some("2025-08-07")],
      [BareUpstream("a-1", "A 1") EXCEPT
          !.family = Some("fa"), !.release_date = Some("2024-05-13")],
      [BareUpstream("a-2", "A 2") EXCEPT
          !.family = Some("fa"), !.release_date = Some("2025-08-07")],
      [BareUpstream("a-mini", "A mini") EXCEPT !.family = Some("fa")],
      [BareUpstream("a-0", "A 0") EXCEPT
          !.family = Some("fa"), !.release_date = Some("2025-08-07"),
          !.status = Some("deprecated")],
      [BareUpstream("b-1", "B 1") EXCEPT
          !.family = Some("fb"), !.release_date = Some("2024-05-13")],
      [BareUpstream("b-latest", "B") EXCEPT !.family = Some("fb")],
      [BareUpstream("e-1", "E 1") EXCEPT
          !.family = Some(""), !.release_date = Some("")],
      BareUpstream("n-mini", "N mini"),
      BareUpstream("n-pro", "N pro") }

SimplifyModelSet == {convertModel(u) : u \in SimplifyCatalog}

\* the values of an upstream models mapping: no record twice
DistinctSeqsUpTo(S, n) ==
    {q \in SeqsUpTo(S, n) : \A i, j \in 1..Len(q) : q[i] = q[j] => i = j}

InitSimplify ==
    /\ pc = "call"
    /\ arg \in [models : DistinctSeqsUpTo(SimplifyModelSet, MaxSimplify)]
    /\ ret = None
    /\ StoreIdle

CallSimplifyModels ==
    /\ pc = "call"
    /\ ret' = Some(simplifyModels(arg.models))
    /\ pc' = "return"
    /\ UNCHANGED <<arg, storeVars>>

NextSimplify == CallSimplifyModels

SpecSimplify == InitSimplify /\ [][NextSimplify]_vars

\* the non-empty family values of a list of models
FamiliesOf(models) ==
    {models[i].family[1] : i \in {j \in 1..Len(models) : TruthyStr(models[j].family)}}

\* the positions in a list of the models of a family
OfFamily(models, f) == {i \in 1..Len(models) : models[i].family = Some(f)}

\* C3: the output of simplifyModels has at most two models of any non-empty
\* family f, and has a model of family f with is_latest = true whenever the
\* input has one.
C3_AtMostTwoLatestKept ==
    pc = "return" =>
        \A f \in FamiliesOf(arg.models) \cup FamiliesOf(ret[1]) :
            /\ Cardinality(OfFamily(ret[1], f)) <= 2
            /\ (\E i \in OfFamily(arg.models, f) : arg.models[i].is_latest)
               => \E k \in OfFamily(ret[1], f) : ret[1][k].is_latest

\* C3 witness: a family of four models, one flagged latest, was cut to two with
\* the flagged one among them.
C3_Witness ==
    /\ pc = "return"
    /\ Cardinality(OfFamily(arg.models, "fa")) = 4
    /\ \E i \in OfFamily(arg.models, "fa") : arg.models[i].is_latest
    /\ Cardinality(OfFamily(ret[1], "fa")) = 2
    /\ \E k \in OfFamily(ret[1], "fa") : ret[1][k].is_latest

\* the family has two or more models and none of them is latest-classified
NoLatestGroup(f) ==
    /\ Cardinality(OfFamily(arg.models, f)) >= 2
    /\ \A i \in OfFamily(arg.models, f) : ~isLatestModel(arg.models[i])

\* C9 as claimed: for a family group of two or more models none of which is
\* latest-classified, the first two entries in sorted order are both kept, so
\* exactly two models of that family are in the output.
C9_TwoKeptWithoutLatest ==
    pc = "return" =>
        \A f \in FamiliesOf(arg.models) :
            NoLatestGroup(f) =>
                LET sorted == familySort(familyGroup(arg.models, f))
                IN  /\ Cardinality(OfFamily(ret[1], f)) = 2
                    /\ \A n \in 1..2 : \E k \in OfFamily(ret[1], f) : ret[1][k] = sorted[n]

\* C9 as amended: for a family group of two or more models none of which is
\* latest-classified, only the first entry in sorted order is kept, so exactly
\* one model of that family is in the output.
C9_OneKeptWithoutLatest ==
    pc = "return" =>
        \A f \in FamiliesOf(arg.models) :
            NoLatestGroup(f) =>
                LET sorted == familySort(familyGroup(arg.models, f))
                IN  /\ Cardinality(OfFamily(ret[1], f)) = 1
                    /\ \A k \in OfFamily(ret[1], f) : ret[1][k] = sorted[1]

\* C9 witness: a family of three distinct models, none latest-classified, was
\* cut to its most recent one.
C9_Witness ==
    /\ pc = "return"
    /\ NoLatestGroup("fa")
    /\ Cardinality({arg.models[i].id : i \in OfFamily(arg.models, "fa")}) = 3
    /\ Cardinality(OfFamily(ret[1], "fa")) = 1
    /\ \E k \in OfFamily(ret[1], "fa") : ret[1][k].id = "a-2"

-----------------------------------------------------------------------------
(* Specification SpecValidate: the provider checks applied to bounded documents *)

MaxDocModels == 2

DocTiers == {None, Some(""), Some("pro"), Some("max"), Some("ultra")}

\* entries of a models array: null, or an object with id, name and tier
DocModels ==
    {[null |-> TRUE, id |-> None, name |-> None, tier |-> None]} \cup
    {[null |-> FALSE, id |-> c[1], name |-> c[2], tier |-> t] :
        c \in {<<Some("m1"), Some("M 1")>>, <<Some(""), Some("M 1")>>,
               <<None, Some("M 1")>>, <<Some("m1"), None>>},
        t \in DocTiers}

DocProviders ==
    {None} \cup
    {Some([id |-> i, name |-> n]) :
        i \in {None, Some(""), Some("openai")}, n \in {None, Some("OpenAI")}}

ProviderDocs ==
    [ provider   : DocProviders,
      models     : {[array |-> FALSE, items |-> <<>>]} \cup
                   {[array |-> TRUE, items |-> q] : q \in SeqsUpTo(DocModels, MaxDocModels)},
      updated_at : {None, Some("2025-01-01T00:00:00.000Z")} ]

InitValidate ==
    /\ pc = "call"
    /\ arg \in [file    : {"openai.json"},
                content : {Garbage, JsonNull} \cup {JsonObject(doc) : doc \in ProviderDocs}]
    /\ ret = None
    /\ StoreIdle

CallValidateProviderFile ==
    /\ pc = "call"
    /\ ret' = Some(validateProviderFile(arg.file, arg.content))
    /\ pc' = "return"
    /\ UNCHANGED <<arg, storeVars>>

NextValidate == CallValidateProviderFile

SpecValidate == InitValidate /\ [][NextValidate]_vars

SeqToSet(q) == {q[i] : i \in 1..Len(q)}

\* the error strings the rules give for a parsed document: one per violated rule
RuleErrors(doc) ==
    (IF doc.text = "object" /\ IsSome(doc.data[1].provider)
        /\ doc.data[1].provider[1].id \notin {None, Some("")}
     THEN {} ELSE {"Missing provider.id"})
    \cup (IF doc.text = "object" /\ IsSome(doc.data[1].provider)
             /\ doc.data[1].provider[1].name \notin {None, Some("")}
          THEN {} ELSE {"Missing provider.name"})
    \cup (IF doc.text = "object" /\ doc.data[1].models.array
          THEN {} ELSE {"models must be an array"})
    \cup (IF doc.text = "object" /\ doc.data[1].updated_at \notin {None, Some("")}
          THEN {} ELSE {"Missing updated_at"})
    \cup (IF doc.text = "object" /\ doc.data[1].models.array
          THEN LET items == doc.data[1].models.items
               IN  UNION {
                     (IF items[k].id \in {None, Some("")}
                      THEN {"models[" \o ToString(k - 1) \o "]: missing id"} ELSE {})
                     \cup (IF items[k].name \in {None, Some("")}
                           THEN {"models[" \o ToString(k - 1) \o "]: missing name"} ELSE {})
                     \cup (IF IsSome(items[k].tier) /\ items[k].tier[1] \notin Tiers
                           THEN {"models[" \o ToString(k - 1) \o "]: invalid tier \""
                                 \o items[k].tier[1] \o "\""}
                           ELSE {}) : k \in 1..Len(items)}
          ELSE {})

\* C4: for every parseable provider document the recorded errors are exactly
\* one distinct string per violated rule (missing provider.id, missing
\* provider.name, non-array models, per model a missing id, a missing name and
\* a present tier outside mini/pro/max, named by index and value, and a missing
\* updated_at), and valid is true iff the error list is empty.
C4_OneErrorPerViolatedRule ==
    (pc = "return" /\ arg.content.text = "object") =>
        /\ SeqToSet(ret[1].errors) = RuleErrors(arg.content)
        /\ Cardinality(SeqToSet(ret[1].errors)) = Len(ret[1].errors)
        /\ ret[1].valid <=> (ret[1].errors = <<>>)

-----------------------------------------------------------------------------
(* Specification SpecValidateRun: one run of validate.ts over a bounded store *)

ValidProviderDoc ==
    JsonObject([ provider   |-> Some([id |-> Some("openai"), name |-> Some("OpenAI")]),
                 models     |-> [array |-> TRUE,
                                 items |-> <<[null |-> FALSE, id |-> Some("m1"),
                                              name |-> Some("M 1"), tier |-> Some("pro")]>>],
                 updated_at |-> Some("2025-01-01T00:00:00.000Z") ])

InvalidProviderDoc ==
    JsonObject([ provider   |-> Some([id |-> Some("openai"), name |-> Some("OpenAI")]),
                 models     |-> [array |-> TRUE,
                                 items |-> <<[null |-> FALSE, id |-> Some("m1"),
                                              name |-> Some("M 1"), tier |-> Some("ultra")]>>],
                 updated_at |-> None ])

ValidAliasDoc ==
    JsonObject([ provider |-> Some("kiro"),
                 aliases  |-> [object |-> TRUE,
                               entries |-> <<[alias |-> "sonnet", object |-> TRUE,
                                              actual |-> Some("claude-sonnet-4-5")]>>] ])

InvalidAliasDoc ==
    JsonObject([ provider |-> None,
                 aliases  |-> [object |-> TRUE,
                               entries |-> <<[alias |-> "sonnet", object |-> TRUE,
                                              actual |-> None],
                                             [alias |-> "opus", object |-> FALSE,
                                              actual |-> None]>>] ])

ValidIndexDoc ==
    JsonObject([ version |-> Some("1.0.0"), updated_at |-> Some("2025-01-01T00:00:00.000Z"),
                 providers |-> [array |-> TRUE] ])

InvalidIndexDoc ==
    JsonObject([ version |-> None, updated_at |-> Some("2025-01-01T00:00:00.000Z"),
                 providers |-> [array |-> FALSE] ])

\* the directories with some of these files, each holding one of these contents
DirsOf(names, contents) ==
    UNION {[present -> contents] : present \in SUBSET names}

RunProviderDirs ==
    DirsOf({"openai.json", "zhipu.json"},
           {ValidProviderDoc, InvalidProviderDoc, Garbage, JsonNull})

RunAliasDirs ==
    DirsOf({"kiro.json", "README.md"}, {ValidAliasDoc, InvalidAliasDoc, Garbage})

RunIndexFiles == {None, Some(ValidIndexDoc), Some(InvalidIndexDoc), Some(Garbage)}

ValStart ==
    [ providerResults |-> <<>>, aliasResults |-> <<>>, indexResult |-> None,
      allResults |-> <<>>, printed |-> <<>> ]

InitValidateRun ==
    /\ pc = "validateProviders"
    /\ CallIdle
    /\ providersDir \in RunProviderDirs
    /\ aliasesDir \in RunAliasDirs
    /\ indexFile \in RunIndexFiles
    /\ val = ValStart
    /\ sync = NoSync
    /\ exitCode = None
    /\ hist = NoHist

NextValidateRun ==
    \/ ValidateProviders
    \/ ValidateAliases
    \/ ValidateIndex
    \/ ValidateReport

SpecValidateRun == InitValidateRun /\ [][NextValidateRun]_vars

\* the results named file in a list of results
ResultsFor(results, file) == {k \in 1..Len(results) : results[k].file = file}

\* C5: a validate run visits every provider file, every alias file and the
\* index without stopping at a failure: there is exactly one result, and one
\* printed pass/fail line, per .json file of providers/ and aliases/ and for
\* index.json; a file that does not parse has a single error and is invalid;
\* and the exit status is non-zero iff some result is invalid.
C5_AllFilesReportedExitIffInvalid ==
    pc = "exited" =>
        /\ \A f \in jsonFiles(providersDir) :
               Cardinality(ResultsFor(val.allResults, "providers/" \o f)) = 1
        /\ \A f \in jsonFiles(aliasesDir) :
               Cardinality(ResultsFor(val.allResults, "aliases/" \o f)) = 1
        /\ Cardinality(ResultsFor(val.allResults, "index.json")) = 1
        /\ Len(val.allResults) =
               Cardinality(jsonFiles(providersDir)) + Cardinality(jsonFiles(aliasesDir)) + 1
        /\ Len(val.printed) = Len(val.allResults)
        /\ \A k \in 1..Len(val.allResults) :
               /\ val.printed[k].file = val.allResults[k].file
               /\ val.printed[k].ok = val.allResults[k].valid
        /\ \A f \in jsonFiles(providersDir) :
               providersDir[f] = Garbage =>
                   \A k \in ResultsFor(val.allResults, "providers/" \o f) :
                       ~val.allResults[k].valid /\ Len(val.allResults[k].errors) = 1
        /\ \A f \in jsonFiles(aliasesDir) :
               aliasesDir[f] = Garbage =>
                   \A k \in ResultsFor(val.allResults, "aliases/" \o f) :
                       ~val.allResults[k].valid /\ Len(val.allResults[k].errors) = 1
        /\ (exitCode # Some(0)) <=> (\E k \in 1..Len(val.allResults) : ~val.allResults[k].valid)

\* C5 witness: the spec's scenario: one invalid provider file, the other
\* provider file, the alias file and the index valid; all four were reported
\* and the run ended with status 1.
C5_Witness ==
    /\ pc = "exited"
    /\ DOMAIN providersDir = {"openai.json", "zhipu.json"}
    /\ providersDir["openai.json"] = InvalidProviderDoc
    /\ providersDir["zhipu.json"] = ValidProviderDoc
    /\ val.providerResults[1].file = "providers/openai.json"
    /\ DOMAIN aliasesDir = {"kiro.json"}
    /\ aliasesDir["kiro.json"] = ValidAliasDoc
    /\ indexFile = Some(ValidIndexDoc)
    /\ Len(val.printed) = 4
    /\ \A k \in 2..4 : val.printed[k].ok
    /\ exitCode = Some(1)

-----------------------------------------------------------------------------
(* Specification Spec: runs of sync-models-dev.ts over a bounded store *)

Upstream(id, name, family, release_date) ==
    [BareUpstream(id, name) EXCEPT !.family = family, !.release_date = release_date]

UpALatest == Upstream("a-latest", "A", Some("fa"), None)

UpA1 == Upstream("a-1", "A 1", Some("fa"), Some("2024-05-13"))

UpA2 == Upstream("a-2", "A 2", Some("fa"), Some("2025-08-07"))

UpB1 == Upstream("b-1", "B 1", Some("fb"), Some("2024-05-13"))

UpNMini == Upstream("n-mini", "N mini", None, None)

UpNPro == [Upstream("n-pro", "N pro", None, None) EXCEPT
              !.cost = Some([input |-> Some(3), output |-> Some(0),
                             cache_read |-> None, cache_write |-> None])]

\* what upstream may list for the two providers
ProviderAModels == {<<>>, <<UpA1, UpA2>>, <<UpALatest, UpA1, UpA2>>}

ProviderBModels == {<<>>, <<UpNMini>>, <<UpB1, UpNPro>>}

\* the entries of a snapshot
EntryA(models) == [key |-> "pa", name |-> "Provider A", models |-> models]

EntryB(models) == [key |-> "pb", name |-> "Provider B", models |-> models]

\* the snapshots the fetch may return: both providers, and once in the other
\* key order
Snapshots ==
    {<<EntryA(ma), EntryB(mb)>> : ma \in ProviderAModels, mb \in ProviderBModels}
    \cup {<<EntryB(<<UpB1, UpNPro>>), EntryA(<<UpA1, UpA2>>)>>}

\* a stored model: converted from an older upstream record, with curated text
Curated(upstream, description, description_zh) ==
    [convertModel([upstream EXCEPT !.status = Some("beta")]) EXCEPT
        !.description = description, !.description_zh = description_zh]

StoredProviderA ==
    JsonObject(providerDataOf(
        [key |-> "pa", name |-> "Provider A"],
        << Curated(UpA2, None, Some("zh a-2")),
           Curated(UpA1, Some("about a-1"), Some("zh a-1")),
           Curated(Upstream("a-0", "A", Some("fa"), None), Some("about a-0"), None) >>,
        "run 0"))

\* a document that parses but has no models array
StoredWithoutModels ==
    JsonObject([providerDataOf([key |-> "pa", name |-> "Provider A"], <<>>, "run 0")
                    EXCEPT !.models = [array |-> FALSE, items |-> <<>>]])

StoredProviderB ==
    JsonObject(providerDataOf(
        [key |-> "pb", name |-> "Provider B"],
        << Curated(UpB1, None, Some("zh b-1")),
           Curated(UpNPro, Some("about n-pro"), None) >>,
        "run 0"))

StoredIndex ==
    JsonObject([indexDataOf(<<"pa", "pb">>, 5, None, "run 0") EXCEPT
                   !.sources.manual = <<"zhipu">>])

\* the directory holding the files chosen (None: no such file)
FilesOf(choice) == [f \in {n \in DOMAIN choice : choice[n] # None} |-> choice[f][1]]

InitProviderDirs ==
    { FilesOf([n \in {"pa.json", "pb.json"} |-> IF n = "pa.json" THEN a ELSE b]) :
        a \in {None, Some(Garbage), Some(StoredProviderA), Some(StoredWithoutModels)},
        b \in {None, Some(StoredProviderB)} }

Init ==
    /\ pc = "start"
    /\ CallIdle
    /\ providersDir \in InitProviderDirs
    /\ aliasesDir = NoFiles
    /\ indexFile \in {None, Some(Garbage), Some(StoredIndex)}
    /\ sync = NoSync
    /\ val = NoVal
    /\ exitCode = None
    /\ hist = [ runs    |-> 0,              \* the runs started
                first   |-> providersDir,   \* PROVIDERS_DIR before the first run
                always  |-> UNION {fetchedIds(data) : data \in Snapshots},
                                            \* the models every fetch so far held
                fetched |-> <<>>,           \* the latest snapshot fetched
                ok      |-> TRUE,           \* no run so far has thrown
                slim    |-> FALSE,          \* some run so far had --slim
                atThrow |-> None,           \* the store when the run threw
                atStart |-> [providers |-> providersDir, index |-> indexFile] ]
                                            \* the store when the run started

\* the response is ok and response.json() gives the snapshot
SyncFetchOk ==
    /\ pc = "fetch"
    /\ \E data \in Snapshots :
           /\ sync' = [sync EXCEPT !.data = data]
           /\ hist' = [hist EXCEPT !.always = @ \cap fetchedIds(data), !.fetched = data]
    /\ pc' = "loop"
    /\ UNCHANGED <<callVars, providersDir, aliasesDir, indexFile, val, exitCode>>

Next ==
    \/ SyncStart
    \/ SyncFetchFails
    \/ SyncFetchOk
    \/ SyncSkipProvider
    \/ SyncWriteProvider
    \/ SyncProviderThrows
    \/ SyncWriteIndex
    \/ SyncIndexThrows
    \/ SyncExit

Spec == Init /\ [][Next]_vars

\* the model stored under this id in providers/<p>.json, if any
StoredModel(dir, p, id) ==
    IF (p \o ".json") \notin DOMAIN dir THEN None
    ELSE LET content == dir[p \o ".json"]
         IN  IF content.text # "object" THEN None
             ELSE IF ~content.data[1].models.array THEN None
             ELSE LET items == content.data[1].models.items
                      hits  == {k \in 1..Len(items) : items[k].id = id}
                  IN  IF hits = {} THEN None ELSE Some(items[CHOOSE k \in hits : TRUE])

\* the record of this id in the snapshot's provider p
FetchedModel(data, p, id) ==
    LET entry == data[CHOOSE i \in 1..Len(data) : data[i].key = p]
    IN  entry.models[CHOOSE k \in 1..Len(entry.models) : entry.models[k].id = id]

\* C7: when a sync run hits a fatal error (the fetch fails or is not ok, or a
\* later step throws) the run ends with a non-zero exit status and writes
\* nothing after the error.
C7_FatalErrorExitsNonZero ==
    /\ (pc \in {"thrown", "exited"} /\ IsSome(sync.error)) =>
           hist.atThrow = Some([providers |-> providersDir, index |-> indexFile])
    /\ (pc = "exited" /\ IsSome(sync.error)) => exitCode # Some(0)

\* C8: after any sequence of successful sync runs (with or without --slim),
\* for a model id m of provider p that every fetch contained, the description
\* and description_zh stored for m are those stored before the first run, and
\* every other field of m is the one converted from the latest fetch.
C8_CuratedFieldsSurvive ==
    (pc = "exited" /\ hist.ok) =>
        \A pm \in hist.always :
            LET before == StoredModel(hist.first, pm[1], pm[2])
                after  == StoredModel(providersDir, pm[1], pm[2])
                fresh  == convertModel(FetchedModel(hist.fetched, pm[1], pm[2]))
            IN  /\ IsSome(after)
                /\ after[1].description =
                       (IF IsSome(before) THEN before[1].description ELSE None)
                /\ after[1].description_zh =
                       (IF IsSome(before) THEN before[1].description_zh ELSE None)
                /\ \A f \in OtherFields : after[1][f] = fresh[f]

-----------------------------------------------------------------------------
(* A run that aborts *)

\* the loop iterations before position i that wrote a file
WroteBefore(i) == {k \in 1..(i - 1) : Len(sync.data[k].models) > 0}

\* what the current run writes for snapshot entry k, the files being as they
\* were in dir when the entry was reached
ContentOfRun(k, dir) ==
    JsonObject(providerDataOf(sync.data[k],
                              mergedModelsOf(sync.data[k], sync.SLIM_MODE,
                                             loadExistingProvider(dir, sync.data[k].key)),
                              timestamp(hist.runs)))

\* C11: when a run has aborted after the provider files of the first k
\* providers with models were written, those k files hold the content of this
\* run, every other provider file is as it was when the run started (present
\* with the same content, or absent), and index.json is as it was when the run
\* started; a run whose fetch failed has changed no file.
C11_PartialWrites ==
    (pc \in {"thrown", "exited"} /\ IsSome(sync.error)) =>
        LET written == WroteBefore(sync.i)
            names   == {sync.data[k].key \o ".json" : k \in written}
        IN  /\ indexFile = hist.atStart.index
            /\ \A k \in written :
                   /\ (sync.data[k].key \o ".json") \in DOMAIN providersDir
                   /\ providersDir[sync.data[k].key \o ".json"] =
                          ContentOfRun(k, hist.atStart.providers)
            /\ (DOMAIN providersDir) \ names = (DOMAIN hist.atStart.providers) \ names
            /\ \A f \in (DOMAIN providersDir) \ names :
                   providersDir[f] = hist.atStart.providers[f]
            /\ sync.data = <<>> => providersDir = hist.atStart.providers

\* C11 witness: the run aborted at its second provider: the first provider's
\* file is new, the second provider's file and the index are the stored ones.
C11_Witness ==
    /\ pc = "thrown"
    /\ sync.i = 2
    /\ sync.providerIds = <<"pa">>
    /\ "pa.json" \in DOMAIN hist.atStart.providers
    /\ providersDir["pa.json"] # hist.atStart.providers["pa.json"]
    /\ providersDir["pa.json"].data[1].updated_at = timestamp(hist.runs)
    /\ "pb.json" \in DOMAIN providersDir
    /\ providersDir["pb.json"] = StoredProviderB
    /\ indexFile = Some(StoredIndex)

-----------------------------------------------------------------------------
(* Specification SpecSort: mergedModels.sort applied to lists of models; its *)
(* result is the models array of the provider document that is written       *)

MaxSort == 3

InitSort ==
    /\ pc = "call"
    /\ arg \in [mergedModels : DistinctSeqsUpTo(SimplifyModelSet, MaxSort)]
    /\ ret = None
    /\ StoreIdle

CallProviderSort ==
    /\ pc = "call"
    /\ ret' = Some(providerSort(arg.mergedModels))
    /\ pc' = "return"
    /\ UNCHANGED <<arg, storeVars>>

NextSort == CallProviderSort

SpecSort == InitSort /\ [][NextSort]_vars

\* C12: in the sorted models sequence every model with a release_date comes
\* before every model without one, the dated models are in non-increasing
\* release_date order, and two adjacent models that the date does not order
\* (both undated, or both of the same release_date) are in non-decreasing
\* name order.
C12_RecentFirstThenByName ==
    pc = "return" =>
        LET models == ret[1]
        IN  /\ \A i, j \in 1..Len(models) :
                   (i < j /\ TruthyStr(models[j].release_date))
                       => TruthyStr(models[i].release_date)
            /\ \A i \in 1..(Len(models) - 1) :
                   /\ (TruthyStr(models[i].release_date) /\ TruthyStr(models[i + 1].release_date))
                          => localeCompare(models[i].release_date[1],
                                           models[i + 1].release_date[1]) >= 0
                   /\ \/ /\ ~TruthyStr(models[i].release_date)
                         /\ ~TruthyStr(models[i + 1].release_date)
                      \/ /\ TruthyStr(models[i].release_date)
                         /\ models[i].release_date = models[i + 1].release_date
                      => localeCompare(models[i].name, models[i + 1].name) <= 0

-----------------------------------------------------------------------------
(* Slim mode and the status of a model *)

\* the positions of the models of a list that are in the list kept
KeptOf(models, kept) == {i \in 1..Len(models) : \E k \in 1..Len(kept) : kept[k] = models[i]}

\* two models of one family that the comparator's criteria do not tell apart
EqualButStatus(a, b) ==
    /\ hasFamily(a)
    /\ a.family = b.family
    /\ a.is_latest = b.is_latest
    /\ isLatestModel(a) = isLatestModel(b)
    /\ a.release_date = b.release_date
    /\ a.tier = b.tier

\* C13: of two models of one family that are equal in latest-classification,
\* release_date and tier, one with status "active" and one with another
\* status, simplifyModels does not keep the non-active one while dropping the
\* active one.
C13_ActivePreferred ==
    pc = "return" =>
        \A i, j \in 1..Len(arg.models) :
            ( /\ EqualButStatus(arg.models[i], arg.models[j])
              /\ arg.models[i].status = "active"
              /\ arg.models[j].status # "active"
              /\ j \in KeptOf(arg.models, ret[1]) )
            => i \in KeptOf(arg.models, ret[1])

-----------------------------------------------------------------------------
(* The index after a run that completed *)

\* the providers whose file holds a document written in the current run
WrittenInRun ==
    {p \in {"pa", "pb"} :
        /\ (p \o ".json") \in DOMAIN providersDir
        /\ providersDir[p \o ".json"].text = "object"
        /\ providersDir[p \o ".json"].data[1].updated_at = timestamp(hist.runs)}

\* the providers of the snapshot that have at least one model
WithModels(data) == {data[k].key : k \in {j \in 1..Len(data) : Len(data[j].models) > 0}}

\* the sum of the lengths of the models arrays of the files of these providers
RECURSIVE ModelsIn(_)
ModelsIn(ps) ==
    IF ps = {} THEN 0
    ELSE LET p == CHOOSE q \in ps : TRUE
         IN  Len(providersDir[p \o ".json"].data[1].models.items) + ModelsIn(ps \ {p})

\* the position of an id in code unit order
codeUnitRank(id) == CHOOSE k \in 1..Len(codeUnitOrder) : codeUnitOrder[k] = id

\* C14: after a sync run that completed, index.providers lists in ascending
\* order and without duplicates exactly the providers whose file was written
\* in the run, which are exactly the providers of the snapshot with at least
\* one model; index.total_models is the sum of the lengths of the models arrays
\* of those files; and sources.manual is that of the index as it was when the
\* run started, or the empty list when that index could not be read.
C14_IndexMatchesRun ==
    (pc \in {"finished", "exited"} /\ ~IsSome(sync.error)) =>
        /\ IsSome(indexFile)
        /\ indexFile[1].text = "object"
        /\ LET index    == indexFile[1].data[1]
               previous == loadExistingIndex(hist.atStart.index)
           IN  /\ {index.providers[k] : k \in 1..Len(index.providers)} = WrittenInRun
               /\ WrittenInRun = WithModels(hist.fetched)
               /\ \A i, j \in 1..Len(index.providers) :
                      i < j => codeUnitRank(index.providers[i]) < codeUnitRank(index.providers[j])
               /\ index.total_models = ModelsIn(WrittenInRun)
               /\ index.sources.manual =
                      (IF IsSome(previous) THEN previous[1].sources.manual ELSE <<>>)

\* C14 witness: the snapshot listed provider pb before provider pa, both with
\* models; the run completed in slim mode and the index lists pa before pb,
\* counts the three models kept and carries the stored manual list.
C14_Witness ==
    /\ pc = "exited"
    /\ ~IsSome(sync.error)
    /\ sync.SLIM_MODE
    /\ hist.fetched[1].key = "pb"
    /\ sync.providerIds = <<"pb", "pa">>
    /\ hist.atStart.index = Some(StoredIndex)
    /\ indexFile[1].data[1].providers = <<"pa", "pb">>
    /\ indexFile[1].data[1].total_models = 3
    /\ indexFile[1].data[1].sources.manual = <<"zhipu">>

-----------------------------------------------------------------------------
(* Specification SpecSyncValidate: runs of sync-models-dev.ts, each followed *)
(* or not by a run of validate.ts over the files the sync left               *)

\* a model of a provider file as validateProviders reads it after
\* JSON.stringify and JSON.parse: id, name and tier are strings of the object
parsedModel(model) ==
    [null |-> FALSE, id |-> Some(model.id), name |-> Some(model.name), tier |-> Some(model.tier)]

\* JSON.parse(content) of a provider file the sync script wrote or found
parsedProviderFile(content) ==
    IF content.text # "object" THEN content
    ELSE LET data == content.data[1]
         IN  JsonObject([ provider   |-> Some([id   |-> Some(data.provider.id),
                                               name |-> Some(data.provider.name)]),
                          models     |-> [array |-> data.models.array,
                                          items |-> [k \in 1..Len(data.models.items) |->
                                                        parsedModel(data.models.items[k])]],
                          updated_at |-> Some(data.updated_at) ])

\* JSON.parse(content) of index.json as the sync script wrote or found it
parsedIndexFile(file) ==
    IF ~IsSome(file) THEN file
    ELSE IF file[1].text # "object" THEN file
    ELSE LET data == file[1].data[1]
         IN  Some(JsonObject([ version    |-> Some(data.version),
                               updated_at |-> Some(data.updated_at),
                               providers  |-> [array |-> TRUE] ]))

\* validate.ts is started after a sync process has ended
ValidateStart ==
    /\ pc = "exited"
    /\ val = NoVal
    /\ val' = ValStart
    /\ exitCode' = None
    /\ pc' = "validateProviders"
    /\ UNCHANGED <<callVars, providersDir, aliasesDir, indexFile, sync, hist>>

\* validateProviders over the provider files of the sync script
ValidateSyncedProviders ==
    /\ pc = "validateProviders"
    /\ \E listing \in listings(jsonFiles(providersDir)) :
           val' = [val EXCEPT !.providerResults =
                      validateProviders([f \in DOMAIN providersDir |->
                                            parsedProviderFile(providersDir[f])], listing)]
    /\ pc' = "validateAliases"
    /\ UNCHANGED <<callVars, providersDir, aliasesDir, indexFile, sync, exitCode, hist>>

\* validateIndex over the index of the sync script
ValidateSyncedIndex ==
    /\ pc = "validateIndex"
    /\ val' = [val EXCEPT !.indexResult = Some(validateIndex(parsedIndexFile(indexFile)))]
    /\ pc' = "report"
    /\ UNCHANGED <<callVars, providersDir, aliasesDir, indexFile, sync, exitCode, hist>>

NextSyncValidate ==
    \/ SyncStart
    \/ SyncFetchFails
    \/ SyncFetchOk
    \/ SyncSkipProvider
    \/ SyncWriteProvider
    \/ SyncProviderThrows
    \/ SyncWriteIndex
    \/ SyncIndexThrows
    \/ SyncExit
    \/ ValidateStart
    \/ ValidateSyncedProviders
    \/ ValidateAliases
    \/ ValidateSyncedIndex
    \/ ValidateReport

SpecSyncValidate == Init /\ [][NextSyncValidate]_vars

\* a validate run has ended, and the sync run before it had completed
ValidatedAfterSync == pc = "exited" /\ val # NoVal /\ ~IsSome(sync.error)

\* C15: when validate.ts has run after a completed sync run (with or without
\* --slim, whatever the files were before), it has reported as valid every
\* provider file that run wrote, and index.json; every model in those files
\* has a tier among mini, pro and max, their models field is an array and
\* their updated_at is not empty.
C15_SyncOutputValidates ==
    ValidatedAfterSync =>
        /\ \A p \in WrittenInRun :
               /\ Cardinality(ResultsFor(val.allResults, "providers/" \o p \o ".json")) = 1
               /\ \A k \in ResultsFor(val.allResults, "providers/" \o p \o ".json") :
                      val.allResults[k].valid /\ val.printed[k].ok
               /\ LET data == providersDir[p \o ".json"].data[1]
                  IN  /\ data.models.array
                      /\ \A k \in 1..Len(data.models.items) :
                             data.models.items[k].tier \in {"mini", "pro", "max"}
                      /\ data.updated_at # ""
        /\ Cardinality(ResultsFor(val.allResults, "index.json")) = 1
        /\ \A k \in ResultsFor(val.allResults, "index.json") : val.allResults[k].valid

\* C15 witness: a slim run over stored files of both providers wrote both
\* files and the index; validate.ts then found all three valid and ended with
\* status 0.
C15_Witness ==
    /\ ValidatedAfterSync
    /\ sync.SLIM_MODE
    /\ hist.atStart.providers = FilesOf([n \in {"pa.json", "pb.json"} |->
                                    IF n = "pa.json" THEN Some(StoredProviderA)
                                    ELSE Some(StoredProviderB)])
    /\ WrittenInRun = {"pa", "pb"}
    /\ Len(val.allResults) = 3
    /\ \A k \in 1..3 : val.allResults[k].valid
    /\ exitCode = Some(0)

=============================================================================
